---- MODULE Spec2Model ----
(***************************************************************************)
(* Sri Lanka Infrastructure Dashboard (src/app.py).                        *)
(*                                                                         *)
(* The program is one Streamlit script.  Every user interaction re-runs    *)
(* the whole script from line 1: the CSV is read again, the page widget is *)
(* read, and either the About page or the Dashboard page is rendered.  One *)
(* action below is one such re-run, taken for one choice of widget values. *)
(*                                                                         *)
(* Numbers with decimals (Value, YoY Change (%)) are held in thousandths,  *)
(* so 110004 stands for 110.004.  A missing cell (NaN) is the empty tuple, *)
(* a present one a 1-tuple.                                                *)
(***************************************************************************)
EXTENDS Integers, Sequences, FiniteSets

VARIABLES
    csv,                \* contents of infrastructure_lka_cleaned.csv (data lines)
    df,                 \* the DataFrame df as it is when the run ends
    page,               \* st.sidebar.radio "Select Page"
    selected_sector,    \* st.sidebar.selectbox "Select Sector"
    selected_indicator, \* st.sidebar.selectbox "Select Indicator"
    year_range,         \* st.sidebar.slider "Select Year Range", <<lo, hi>>
    compare_inds,       \* st.sidebar.multiselect, a set of indicator names
    filtered,           \* the DataFrame filtered
    latest,             \* the row latest: <<>> when never assigned, else <<row>>
    multi_df,           \* the DataFrame multi_df
    out,                \* what the run rendered, in order
    status,             \* "ok", or the exception that ended the run
    memo                \* history: <<>> or <<one earlier Dashboard run>>

vars == <<csv, df, page, selected_sector, selected_indicator, year_range,
          compare_inds, filtered, latest, multi_df, out, status, memo>>

----------------------------------------------------------------------------
(* Bounds and the input space *)

MaxRows == 3            \* data lines in the CSV file
MaxRowsH == 2           \* data lines in the CSV file, history specification

Sectors == {"ICT", "Transport"}
IndicatorNames == {"Internet users", "Rail lines"}
Years == {1960, 1961}

NA == <<>>
\* The cells a line of the file may carry for an indicator and a year:
\* <<Value, YoY Change (%)>>.  The first year of a series has no YoY.
Measurement(n, y) ==
    IF n = "Internet users"
    THEN (IF y = 1960 THEN <<100000, NA>> ELSE <<110004, <<10004>>>>)
    ELSE (IF y = 1960 THEN <<1234, NA>> ELSE <<1234, <<0>>>>)

\* One data line, columns Year, Indicator Name, Value, Sector, YoY Change (%)
Lines == {<<y, n, Measurement(n, y)[1], s, Measurement(n, y)[2]>> :
            y \in Years, n \in IndicatorNames, s \in Sectors}

\* At most one line per (Sector, Indicator Name, Year): the cleaned file
UniqueKeys(f) ==
    \A j, k \in DOMAIN f :
        (f[j][4] = f[k][4] /\ f[j][2] = f[k][2] /\ f[j][1] = f[k][1]) => j = k

CsvFiles(L, n) ==
    {f \in UNION {[1..k -> L] : k \in 1..n} : UniqueKeys(f)}

\* The history specification reads files with one sector
LinesH == {l \in Lines : l[4] = "ICT"}

----------------------------------------------------------------------------
(* The script's expressions *)

\* pd.read_csv: one row per data line, columns by name
read_csv(file) ==
    [k \in 1..Len(file) |->
        [Year |-> file[k][1], IndicatorName |-> file[k][2], Value |-> file[k][3],
         Sector |-> file[k][4], YoY |-> file[k][5]]]

\* DataFrame.to_csv(index=False): header line, then one line per row
to_csv(rows) ==
    <<<<"Year", "Indicator Name", "Value", "Sector", "YoY Change (%)">>>> \o
    [k \in 1..Len(rows) |->
        <<rows[k].Year, rows[k].IndicatorName, rows[k].Value,
          rows[k].Sector, rows[k].YoY>>]

\* Mutant: upper bound exclusive
between_exclusive(y, lo, hi) == lo <= y /\ y < hi

\* Series.between(lo, hi): inclusive on both sides
between(y, lo, hi) == lo <= y /\ y <= hi

\* pd.isna
isna(x) == x = NA

\* f"{x:.2f}": x in thousandths, rounded to hundredths, <<units, hundredths>>
Fmt2(x) ==
    LET h == (x + 5) \div 10
    IN  <<h \div 100, h % 100>>

\* sorted(df["Sector"].unique())
SectorOptions(d) == {d[k].Sector : k \in DOMAIN d}

\* df[df["Sector"] == selected_sector]["Indicator Name"].unique()
IndicatorOptions(d, s) ==
    {d[k].IndicatorName : k \in {j \in DOMAIN d : d[j].Sector = s}}

\* int(df["Year"].min()), int(df["Year"].max())
YearMin(d) == CHOOSE y \in {d[k].Year : k \in DOMAIN d} :
                \A k \in DOMAIN d : y <= d[k].Year
YearMax(d) == CHOOSE y \in {d[k].Year : k \in DOMAIN d} :
                \A k \in DOMAIN d : y >= d[k].Year

\* the slider yields lo <= hi inside [min, max]
RangeOptions(d) ==
    {r \in (YearMin(d)..YearMax(d)) \X (YearMin(d)..YearMax(d)) : r[1] <= r[2]}

\* Mutant: rows come back in reverse source order
FilteredRows_reversed(d, s, i, r) ==
    LET keep == SelectSeq(d, LAMBDA x :
                    x.Sector = s /\ x.IndicatorName = i /\ between(x.Year, r[1], r[2]))
    IN  [k \in 1..Len(keep) |-> keep[Len(keep) + 1 - k]]

\* filtered = df[(Sector == s) & (Indicator Name == i) & Year.between(lo, hi)]
FilteredRows(d, s, i, r) ==
    SelectSeq(d, LAMBDA x :
        x.Sector = s /\ x.IndicatorName = i /\ between(x.Year, r[1], r[2]))

\* multi_df = df[(Sector == s) & Indicator Name.isin(c) & Year.between(lo, hi)]
MultiRows(d, s, c, r) ==
    SelectSeq(d, LAMBDA x :
        x.Sector = s /\ x.IndicatorName \in c /\ between(x.Year, r[1], r[2]))

\* df[df["Indicator Name"] == selected_indicator]
BoxRows(d, i) == SelectSeq(d, LAMBDA x : x.IndicatorName = i)

\* Mutant: ascending=True
RECURSIVE sort_values_ascending(_)
sort_values_ascending(rows) ==
    IF rows = <<>> THEN <<>>
    ELSE LET x == rows[Len(rows)]
             s == sort_values_ascending(SubSeq(rows, 1, Len(rows) - 1))
             k == Cardinality({j \in DOMAIN s : s[j].Year <= x.Year})
         IN  SubSeq(s, 1, k) \o <<x>> \o SubSeq(s, k + 1, Len(s))

\* DataFrame.sort_values("Year", ascending=False)
RECURSIVE sort_values(_)
sort_values(rows) ==
    IF rows = <<>> THEN <<>>
    ELSE LET x == rows[Len(rows)]
             s == sort_values(SubSeq(rows, 1, Len(rows) - 1))
             k == Cardinality({j \in DOMAIN s : s[j].Year >= x.Year})
         IN  SubSeq(s, 1, k) \o <<x>> \o SubSeq(s, k + 1, Len(s))

----------------------------------------------------------------------------
(* What a run renders.  An element has a kind, its strings, the rows it    *)
(* was given and its numbers.                                              *)

Element(kind, text, rows, num) ==
    [kind |-> kind, text |-> text, rows |-> rows, num |-> num]

\* k1.metric, k2.metric, k3.metric
KeyMetrics(lat) ==
    << Element("metric", <<"Year">>, <<>>, <<lat.Year>>),
       Element("metric", <<"Latest Value">>, <<>>, Fmt2(lat.Value)),
       IF isna(lat.YoY)
       THEN Element("metric", <<"YoY Change", "N/A">>, <<>>, <<>>)
       ELSE Element("metric", <<"YoY Change">>, <<>>, Fmt2(lat.YoY[1])) >>

\* Mutant: the box plot is fed the filtered rows
SingleCharts_box_filtered(d, flt, i) ==
    << Element("trend", <<i>>, flt, <<>>),
       Element("growth", <<"Growth Classification">>, flt, <<>>),
       Element("box", <<i>>, flt, <<>>),
       Element("area", <<"Cumulative Progression">>, flt, <<>>) >>

\* fig_trend, fig_growth, fig_box, fig_area
SingleCharts(d, flt, i) ==
    << Element("trend", <<i>>, flt, <<>>),
       Element("growth", <<"Growth Classification">>, flt, <<>>),
       Element("box", <<i>>, BoxRows(d, i), <<>>),
       Element("area", <<"Cumulative Progression">>, flt, <<>>) >>

\* Mutant: the two charts are drawn whatever multi_df holds
MultiComparison_unguarded(mdf) ==
    << Element("multi_line", <<"Trend Comparison">>, mdf, <<>>),
       Element("multi_box", <<"Distribution Comparison">>, mdf, <<>>) >>

\* Mutant: a percent-change card per indicator that has two rows or more,
\* (curr - prev) / prev * 100 over its two most recent rows, 0 when prev is 0
MultiComparison_with_delta(mdf) ==
    LET names == {mdf[k].IndicatorName : k \in DOMAIN mdf}
        two(n) == sort_values(SelectSeq(mdf, LAMBDA x : x.IndicatorName = n))
        delta(n) == IF two(n)[2].Value = 0 THEN 0
                    ELSE ((two(n)[1].Value - two(n)[2].Value) * 100000)
                            \div two(n)[2].Value
        card(n) == IF Len(two(n)) >= 2
                   THEN <<Element("metric", <<"Change", n>>, <<>>, <<delta(n)>>)>>
                   ELSE <<>>
        RECURSIVE cards(_)
        cards(S) == IF S = {} THEN <<>>
                    ELSE LET n == CHOOSE m \in S : TRUE
                         IN  card(n) \o cards(S \ {n})
    IN  IF mdf # <<>>
        THEN << Element("multi_line", <<"Trend Comparison">>, mdf, <<>>),
                Element("multi_box", <<"Distribution Comparison">>, mdf, <<>>) >>
             \o cards(names)
        ELSE <<>>

\* Mutant: indicators with fewer than two rows are left out of the charts
MultiComparison_skip_sparse(mdf) ==
    LET count(n) == Cardinality({k \in DOMAIN mdf : mdf[k].IndicatorName = n})
        dense == SelectSeq(mdf, LAMBDA x : count(x.IndicatorName) >= 2)
    IN  IF dense # <<>>
        THEN << Element("multi_line", <<"Trend Comparison">>, dense, <<>>),
                Element("multi_box", <<"Distribution Comparison">>, dense, <<>>) >>
        ELSE <<>>

\* if not multi_df.empty: fig_multi_line, fig_multi_box
MultiComparison(mdf) ==
    IF mdf # <<>>
    THEN << Element("multi_line", <<"Trend Comparison">>, mdf, <<>>),
            Element("multi_box", <<"Distribution Comparison">>, mdf, <<>>) >>
    ELSE <<>>

\* with st.expander("Key Takeaways")
KeyTakeaways(lat, s, i) ==
    Element("takeaways", <<i, s>>, <<>>,
            Fmt2(lat.Value) \o <<lat.Year>> \o
            (IF isna(lat.YoY) THEN <<>> ELSE Fmt2(lat.YoY[1])))

\* st.sidebar.download_button(..., filtered.to_csv(index=False), ...)
DownloadButton(flt) ==
    Element("download", <<"filtered_infra_data.csv">>, to_csv(flt), <<>>)

----------------------------------------------------------------------------
(* The two pages: the values the script's names hold when the run ends *)

\* page == "About": title and markdown, no Dashboard name is bound
AboutPage(d) ==
    [df |-> d, filtered |-> <<>>, latest |-> <<>>, multi_df |-> <<>>,
     out |-> << Element("title", <<"About the Dashboard">>, <<>>, <<>>),
                Element("markdown", <<"Dataset Columns Explained">>, <<>>, <<>>) >>,
     status |-> "ok"]

\* Mutant: df is sorted in place before the rows are picked
DashboardPage_sort_inplace(d, s, i, r, c) ==
    LET sd  == sort_values(d)
        flt == FilteredRows(sd, s, i, r)
        hdr == << Element("title", <<"Infrastructure Insights">>, <<>>, <<>>) >>
    IN  IF flt = <<>>
        THEN [df |-> sd, filtered |-> flt, latest |-> <<>>, multi_df |-> <<>>,
              out |-> hdr \o << Element("exception", <<"IndexError">>, <<>>, <<>>) >>,
              status |-> "IndexError"]
        ELSE LET lat == sort_values(flt)[1]
                 mdf == MultiRows(sd, s, c, r)
             IN  [df |-> sd, filtered |-> flt, latest |-> <<lat>>, multi_df |-> mdf,
                  out |-> hdr \o KeyMetrics(lat) \o SingleCharts(sd, flt, i)
                          \o MultiComparison(mdf)
                          \o << KeyTakeaways(lat, s, i), DownloadButton(flt) >>,
                  status |-> "ok"]

\* Mutant: latest is kept from the run before when that run bound it
DashboardPage_latest_cached(d, s, i, r, c) ==
    LET flt == FilteredRows(d, s, i, r)
        hdr == << Element("title", <<"Infrastructure Insights">>, <<>>, <<>>) >>
    IN  IF flt = <<>>
        THEN [df |-> d, filtered |-> flt, latest |-> <<>>, multi_df |-> <<>>,
              out |-> hdr \o << Element("exception", <<"IndexError">>, <<>>, <<>>) >>,
              status |-> "IndexError"]
        ELSE LET lat == IF latest # <<>> THEN latest[1] ELSE sort_values(flt)[1]
                 mdf == MultiRows(d, s, c, r)
             IN  [df |-> d, filtered |-> flt, latest |-> <<lat>>, multi_df |-> mdf,
                  out |-> hdr \o KeyMetrics(lat) \o SingleCharts(d, flt, i)
                          \o MultiComparison(mdf)
                          \o << KeyTakeaways(lat, s, i), DownloadButton(flt) >>,
                  status |-> "ok"]

\* page == "Dashboard", lines 60-178.  filtered.sort_values(...).iloc[0] raises
\* IndexError on an empty frame; nothing catches it, so the run ends there and
\* Streamlit shows the exception in place of the rest of the page.
DashboardPage(d, s, i, r, c) ==
    LET flt == FilteredRows(d, s, i, r)
        hdr == << Element("title", <<"Infrastructure Insights">>, <<>>, <<>>) >>
    IN  IF flt = <<>>
        THEN [df |-> d, filtered |-> flt, latest |-> <<>>, multi_df |-> <<>>,
              out |-> hdr \o << Element("exception", <<"IndexError">>, <<>>, <<>>) >>,
              status |-> "IndexError"]
        ELSE LET lat == sort_values(flt)[1]
                 mdf == MultiRows(d, s, c, r)
             IN  [df |-> d, filtered |-> flt, latest |-> <<lat>>, multi_df |-> mdf,
                  out |-> hdr \o KeyMetrics(lat) \o SingleCharts(d, flt, i)
                          \o MultiComparison(mdf)
                          \o << KeyTakeaways(lat, s, i), DownloadButton(flt) >>,
                  status |-> "ok"]

----------------------------------------------------------------------------
(* State machine *)

\* The run's names become the state; the file is only read
RunEnds(ns, pg, s, i, r, c) ==
    /\ page' = pg
    /\ selected_sector' = s
    /\ selected_indicator' = i
    /\ year_range' = r
    /\ compare_inds' = c
    /\ df' = ns.df
    /\ filtered' = ns.filtered
    /\ latest' = ns.latest
    /\ multi_df' = ns.multi_df
    /\ out' = ns.out
    /\ status' = ns.status
    /\ csv' = csv

\* The first run of a session: the radio starts on "About"
FirstRun ==
    LET ns == AboutPage(read_csv(csv))
    IN  /\ page = "About"
        /\ selected_sector = ""
        /\ selected_indicator = ""
        /\ year_range = <<0, 0>>
        /\ compare_inds = {}
        /\ df = ns.df
        /\ filtered = ns.filtered
        /\ latest = ns.latest
        /\ multi_df = ns.multi_df
        /\ out = ns.out
        /\ status = ns.status
        /\ memo = <<>>

Init == csv \in CsvFiles(Lines, MaxRows) /\ FirstRun

\* History only: note on the remembered run that another selection ran since
Touch(m, other) ==
    IF m = <<>> THEN m ELSE <<[m[1] EXCEPT !.between = @ \/ other]>>

\* A re-run with the radio on "About"
About ==
    /\ RunEnds(AboutPage(read_csv(csv)), "About", "", "", <<0, 0>>, {})
    /\ memo' = Touch(memo, TRUE)

\* A re-run with the radio on "Dashboard", for one choice of the four widgets
DashboardRun(s, i, r, c) ==
    RunEnds(DashboardPage(read_csv(csv), s, i, r, c), "Dashboard", s, i, r, c)

Dashboard ==
    \E s \in SectorOptions(read_csv(csv)) :
    \E i \in IndicatorOptions(read_csv(csv), s) :
    \E r \in RangeOptions(read_csv(csv)) :
    \E c \in SUBSET IndicatorOptions(read_csv(csv), s) :
        /\ DashboardRun(s, i, r, c)
        /\ memo' = Touch(memo, memo # <<>> /\ memo[1].selection # <<s, i, r, c>>)

Next == About \/ Dashboard

Spec == Init /\ [][Next]_vars

----------------------------------------------------------------------------
(* History specification: one earlier Dashboard run is remembered, any one *)

\* What a run showed and bound, with the selection it was run for
Snapshot ==
    [csv |-> csv,
     selection |-> <<selected_sector, selected_indicator, year_range, compare_inds>>,
     filtered |-> filtered, latest |-> latest, multi_df |-> multi_df,
     out |-> out, status |-> status, between |-> FALSE]

InitH == csv \in CsvFiles(LinesH, MaxRowsH) /\ FirstRun

DashboardRemember ==
    \E s \in SectorOptions(read_csv(csv)) :
    \E i \in IndicatorOptions(read_csv(csv), s) :
    \E r \in RangeOptions(read_csv(csv)) :
    \E c \in SUBSET IndicatorOptions(read_csv(csv), s) :
        DashboardRun(s, i, r, c) /\ memo' = <<Snapshot'>>

NextH == About \/ Dashboard \/ DashboardRemember

SpecH == InitH /\ [][NextH]_vars

----------------------------------------------------------------------------
(* Properties *)

\* The selection predicate of the single-indicator view, on a row of df
Selected(x) ==
    /\ x.Sector = selected_sector
    /\ x.IndicatorName = selected_indicator
    /\ year_range[1] <= x.Year /\ x.Year <= year_range[2]

\* The selection predicate of the multi-indicator view, on a row of df
SelectedMulti(x) ==
    /\ x.Sector = selected_sector
    /\ x.IndicatorName \in compare_inds
    /\ year_range[1] <= x.Year /\ x.Year <= year_range[2]

\* Rows of multi_df carrying indicator n
CountIn(rows, n) == Cardinality({k \in DOMAIN rows : rows[k].IndicatorName = n})

\* C1: a row of df is in filtered exactly when its sector is the selected
\* sector, its indicator the selected indicator and its year within the range,
\* both ends included; filtered holds nothing else and no row twice.  The same
\* holds of multi_df with membership in compare_inds.
C1_FilterSoundComplete ==
    page = "Dashboard" =>
        /\ \A k \in DOMAIN df :
              (\E j \in DOMAIN filtered : filtered[j] = df[k]) <=> Selected(df[k])
        /\ \A j \in DOMAIN filtered : \E k \in DOMAIN df : df[k] = filtered[j]
        /\ Len(filtered) = Cardinality({k \in DOMAIN df : Selected(df[k])})
        /\ status = "ok" =>
              /\ \A k \in DOMAIN df :
                    (\E j \in DOMAIN multi_df : multi_df[j] = df[k])
                        <=> SelectedMulti(df[k])
              /\ \A j \in DOMAIN multi_df : \E k \in DOMAIN df : df[k] = multi_df[j]
              /\ Len(multi_df) = Cardinality({k \in DOMAIN df : SelectedMulti(df[k])})

\* C1 witness: the year range cuts a row of the selected series off at either
\* end value, and multi_df holds more than filtered
C1_Witness ==
    /\ page = "Dashboard" /\ status = "ok"
    /\ year_range[1] = year_range[2]
    /\ \E k \in DOMAIN df :
          /\ df[k].Sector = selected_sector
          /\ df[k].IndicatorName = selected_indicator
          /\ ~Selected(df[k])
    /\ Len(multi_df) > Len(filtered)

\* C2 (as claimed): when no row matches, the run shows a placeholder: latest
\* is not read, no exception is raised and none is shown.
C2_EmptySelectionHandled ==
    (page = "Dashboard" /\ filtered = <<>>) =>
        /\ status = "ok"
        /\ \A k \in DOMAIN out : out[k].kind # "exception"

\* C3: when filtered is not empty, latest is the row of filtered with the
\* greatest year, the only one with that year, and the three cards show its
\* year, its value to two decimals and its YoY to two decimals, or N/A.
C3_LatestIsMaxYear ==
    (page = "Dashboard" /\ filtered # <<>>) =>
        /\ Len(latest) = 1
        /\ \E j \in DOMAIN filtered : filtered[j] = latest[1]
        /\ \A j \in DOMAIN filtered :
              /\ filtered[j].Year <= latest[1].Year
              /\ filtered[j].Year = latest[1].Year => filtered[j] = latest[1]
        /\ out[2].kind = "metric" /\ out[2].num = <<latest[1].Year>>
        /\ out[3].kind = "metric" /\ out[3].num = Fmt2(latest[1].Value)
        /\ out[4].kind = "metric"
        /\ IF latest[1].YoY = NA
           THEN out[4].text = <<"YoY Change", "N/A">> /\ out[4].num = <<>>
           ELSE out[4].text = <<"YoY Change">> /\ out[4].num = Fmt2(latest[1].YoY[1])

\* C3 witness: two rows selected, the later year second in file order
C3_Witness ==
    /\ page = "Dashboard" /\ status = "ok"
    /\ Len(filtered) = 2
    /\ latest = <<filtered[2]>>
    /\ filtered[1].Year < filtered[2].Year

C6_DistributionIgnoresYearRange ==
    (page = "Dashboard" /\ status = "ok") =>
        /\ out[7].kind = "box"
        /\ Len(out[7].rows) =
              Cardinality({k \in DOMAIN df : df[k].IndicatorName = selected_indicator})
        /\ \A k \in DOMAIN df :
              df[k].IndicatorName = selected_indicator
                  <=> \E j \in DOMAIN out[7].rows : out[7].rows[j] = df[k]

\* C6 witness: the box plot holds a row whose year is outside the range
C6_Witness ==
    /\ page = "Dashboard" /\ status = "ok"
    /\ \E j \in DOMAIN out[7].rows :
          \/ out[7].rows[j].Year < year_range[1]
          \/ out[7].rows[j].Year > year_range[2]

\* C7: filtering the filtered rows again with the same selection gives the
\* same rows in the same order, and filtered keeps the order of df.
C7_FilterIdempotent ==
    page = "Dashboard" =>
        /\ FilteredRows(filtered, selected_sector, selected_indicator, year_range)
              = filtered
        /\ \A a, b \in DOMAIN filtered :
              a < b =>
                  (CHOOSE k \in DOMAIN df : df[k] = filtered[a])
                      < (CHOOSE k \in DOMAIN df : df[k] = filtered[b])

\* C7 witness: two rows kept, one dropped
C7_Witness ==
    /\ page = "Dashboard"
    /\ Len(filtered) = 2
    /\ Len(df) = 3

\* C8: no run changes df, nor the file it is read from.
C8_DatasetNeverMutated == [][df' = df /\ csv' = csv]_vars

\* C8 witness: a Dashboard run that sorted two rows into another order
C8_Witness ==
    /\ page = "Dashboard" /\ status = "ok"
    /\ Len(filtered) = 2
    /\ latest = <<filtered[2]>>
    /\ df = read_csv(csv)

C10_MultiComparisonGuarded ==
    (page = "Dashboard" /\ filtered # <<>>) =>
        /\ status = "ok"
        /\ (\E k \in DOMAIN out : out[k].kind = "multi_line") <=> multi_df # <<>>
        /\ (\E k \in DOMAIN out : out[k].kind = "multi_box") <=> multi_df # <<>>
        /\ out[Len(out) - 1].kind = "takeaways"
        /\ out[Len(out)].kind = "download"
        /\ compare_inds = {selected_indicator} => multi_df = filtered

\* C10 witness: every compared indicator cleared, the run still ends well
C10_Witness ==
    /\ page = "Dashboard" /\ status = "ok"
    /\ compare_inds = {}
    /\ multi_df = <<>>
    /\ out[Len(out)].kind = "download"

====
